---- MODULE Spec2Model ----
(***************************************************************************)
(* FinanceLab -- Notes / MindMap editor (src/pages/community.tsx).         *)
(*                                                                         *)
(* The model follows the Community component: the MindState value held by  *)
(* useState, the localStorage item, the debounce timer of the persist      *)
(* effect, the interval of the expiry effect, the pointer refs, and one    *)
(* action per event handler or effect.                                     *)
(*                                                                         *)
(* Conventions of the model                                                *)
(*  - Times are milliseconds as in the source.  The wall clock starts at   *)
(*    T0 and advances in steps of TickMs (TLC integers are 32 bits wide,    *)
(*    so T0 is a small epoch offset, not a 2020s Date.now()).              *)
(*  - Ids returned by uid() are positive integers taken from a counter:    *)
(*    uid() concatenates two random 52-bit fractions, and the model takes   *)
(*    the collision-free draw.                                             *)
(*  - Undefined (0) stands for a missing / undefined / null property; it   *)
(*    is falsy like them, and no id or time of the model is 0.             *)
(*  - Lengths are integers (the source's floats rounded): screen and world *)
(*    coordinates in pixels, zoom in thousandths, angles in milliradians.  *)
(*  - Of a MindNode the model keeps id, title, x and y; body, tone and the *)
(*    per-node timestamps are carried along by every operation exactly as  *)
(*    title is and are left out.                                           *)
(*  - A handler's closure `state` is the state of the last render, which   *)
(*    is the current state when the handler runs (React re-renders after   *)
(*    each event), so closure reads and `prev` reads coincide.             *)
(***************************************************************************)
EXTENDS Integers, Sequences, FiniteSets, TLC

VARIABLES
    state,       \* useState<MindState>                        (line 284)
    hydrated,    \* useState(false)                            (line 287)
    storage,     \* localStorage[STORAGE_KEY], a JSON text     (line 42)
    storageOk,   \* whether localStorage.setItem succeeds (environment)
    mounted,     \* the component tree is mounted (no render error so far)
    timer,       \* the pending setTimeout of the persist effect (line 341)
    clock,       \* Date.now()                                 (line 45)
    nextUid,     \* the ids uid() has handed out so far        (line 49)
    seedSymbol,  \* router.query.symbol                        (line 282)
    importText,  \* useState("") of the import textarea        (line 300)
    isPanning,   \* useState(false)                            (line 293)
    panRef,      \* useRef: {sx, sy, vx, vy} | null            (line 294)
    dragId,      \* useState<string|null>                      (line 296)
    dragRef,     \* useRef: {dx, dy} | null                    (line 297)
    cmds,        \* number of user commands issued so far (bounds the run)
    lastOp,      \* history: the handler or effect that last did something
    burst,       \* history: the renders the pending timeout has absorbed, or,
                 \* once it has fired, the renders its write stood for
    pasted       \* history: the text the last doImport was given

vars == <<state, hydrated, storage, storageOk, mounted, timer, clock, nextUid,
          seedSymbol, importText, isPanning, panRef, dragId, dragRef, cmds, lastOp,
          burst, pasted>>

-----------------------------------------------------------------------------
(* Bounds of the model *)

MaxCmds == 2
MaxTicks == 2

-----------------------------------------------------------------------------
(* Program constants *)

TTL_MS == 24 * 60 * 60 * 1000

Undefined == 0

CenterX == 520
CenterY == 320

ZoomOne == 1000
ZoomMin == 650
ZoomMax == 1800

\* One step of the wall clock, and the clock at mount.
TickMs == 12 * 60 * 60 * 1000
T0 == 8 * TickMs

\* The value null: what importState and safeParseJSON return on failure, and
\* what the refs hold between gestures.
Null == [null |-> TRUE]

-----------------------------------------------------------------------------
(* Small numeric helpers *)

Max(a, b) == IF a >= b THEN a ELSE b
Min(a, b) == IF a <= b THEN a ELSE b

\* clamp without the upper limit
clampLowerOnly(n, lo, hi) == Max(lo, n)

clamp(n, lo, hi) == Max(lo, Min(hi, n))

\* Math.round(value / grid) * grid; Math.round rounds halves up.
snap(value, grid) == ((2 * value + grid) \div (2 * grid)) * grid

\* x * y / 1000 on thousandths, rounded to nearest.
MulMilli(a, b) == (a * b + 500) \div 1000

PiMilli == 3142
TwoPiMilli == 6283
HalfPiMilli == 1571

\* cos and sin of an angle in milliradians, in thousandths: Taylor series on
\* [-pi/2, pi/2] after range reduction.
CosSmall(x) ==
    LET x2 == MulMilli(x, x)
        t1 == x2 \div 2
        t2 == MulMilli(t1, x2) \div 12
        t3 == MulMilli(t2, x2) \div 30
        t4 == MulMilli(t3, x2) \div 56
    IN  1000 - t1 + t2 - t3 + t4

RECURSIVE WrapAngle(_)
WrapAngle(a) ==
    IF a > PiMilli THEN WrapAngle(a - TwoPiMilli)
    ELSE IF a < 0 - PiMilli THEN WrapAngle(a + TwoPiMilli)
    ELSE a

Cos(a) ==
    LET w == WrapAngle(a)
    IN  IF w > HalfPiMilli THEN 0 - CosSmall(PiMilli - w)
        ELSE IF w < 0 - HalfPiMilli THEN 0 - CosSmall(PiMilli + w)
        ELSE CosSmall(w)

Sin(a) == Cos(a - HalfPiMilli)

\* centre + cos(a) * radius, rounded to a pixel
PolarX(cx, a, radius) == cx + (Cos(a) * radius + 500) \div 1000
PolarY(cy, a, radius) == cy + (Sin(a) * radius + 500) \div 1000

-----------------------------------------------------------------------------
(* Titles.  A title is an opaque string; the operations on titles are given *)
(* on the strings the model uses.                                           *)

\* values of router.query.symbol, and the quick-symbol chips (line 773)
Seeds == {"AAPL", "MSFT"}

\* what the user types into a title field
TypedTitles == {" Idea ", "Notes: perso"}

\* s.replace(/\s+/g, " ").trim().slice(0, 60)
sanitizeTitle(s) == IF s = " Idea " THEN "Idea" ELSE s

\* `Notes: ${seedSymbol}`
NotesOf(sym) == "Notes: " \o sym

\* title.startsWith("Notes:")
StartsWithNotes(title) == title \in {NotesOf(sym) : sym \in Seeds} \cup {"Notes: perso"}

-----------------------------------------------------------------------------
(* MindNode, MindEdge, MindState *)

MindNode(id, title, x, y) == [id |-> id, title |-> title, x |-> x, y |-> y]

MindEdge(id, from, to) == [id |-> id, from |-> from, to |-> to]

NodeIds(st) == {st.nodes[i].id : i \in DOMAIN st.nodes}

\* state.nodes[0]?.id
RootId(st) == IF Len(st.nodes) = 0 THEN Undefined ELSE st.nodes[1].id

DefaultViewport == [x |-> 0, y |-> 0, zoom |-> ZoomOne]

\* !st.expiresAt || st.expiresAt <= now()
isExpired(st, t) == st.expiresAt = Undefined \/ st.expiresAt <= t

\* setWithTTL counting the 24 hours from now() instead of createdAt
setWithTTLExpiryFromNow(st, t) ==
    LET createdAt == IF st.createdAt = Undefined THEN t ELSE st.createdAt
    IN  [st EXCEPT !.createdAt = createdAt,
                   !.updatedAt = t,
                   !.expiresAt = t + TTL_MS]

\* setWithTTL taking now() for createdAt on every call
setWithTTLFromNow(st, t) ==
    [st EXCEPT !.createdAt = t, !.updatedAt = t, !.expiresAt = t + TTL_MS]

\* createdAt = st.createdAt ?? now()
setWithTTL(st, t) ==
    LET createdAt == IF st.createdAt = Undefined THEN t ELSE st.createdAt
    IN  [st EXCEPT !.createdAt = createdAt,
                   !.updatedAt = t,
                   !.expiresAt = createdAt + TTL_MS]

\* defaultState(seedTitle) at time t, `rootId` being the uid("root") drawn
defaultState(seedTitle, t, rootId) ==
    LET root == MindNode(rootId,
                         IF seedTitle # "" THEN sanitizeTitle(seedTitle) ELSE "Nouvelle note",
                         CenterX, CenterY)
    IN  [version    |-> 1,
         createdAt  |-> t,
         updatedAt  |-> t,
         expiresAt  |-> t + TTL_MS,
         nodes      |-> <<root>>,
         edges      |-> <<>>,
         selectedId |-> root.id,
         viewport   |-> DefaultViewport]

\* seedSymbol ? `Notes: ${seedSymbol}` : undefined   (undefined is "")
SeedTitle(sym) == IF sym # "" THEN NotesOf(sym) ELSE ""

\* state.nodes.find((n) => n.id === id) ?? null
getNode(st, id) ==
    IF id = Undefined \/ id \notin NodeIds(st) THEN Null
    ELSE st.nodes[CHOOSE i \in DOMAIN st.nodes :
                     st.nodes[i].id = id /\ \A j \in 1..(i - 1) : st.nodes[j].id # id]

-----------------------------------------------------------------------------
(* JSON texts.                                                              *)
(* A text is known by how JSON.parse takes it and, for an object, by the    *)
(* keys it carries:                                                         *)
(*   parse  "none"    no text at all (getItem gave null, or "")             *)
(*          "throws"  JSON.parse throws                                     *)
(*          "falsy"   parses to null, false or 0                            *)
(*          "scalar"  parses to a truthy non-object                         *)
(*          "object"  parses to an object                                   *)
(*   keys   the keys present with a non-null value                          *)
(*   lists  those of "nodes", "edges" whose value is an array               *)
(*   val    the values; a key that is absent holds Undefined / <<>>         *)

Keys == {"version", "createdAt", "updatedAt", "expiresAt",
         "nodes", "edges", "selectedId", "viewport"}

EmptyVal ==
    [version |-> Undefined, createdAt |-> Undefined, updatedAt |-> Undefined,
     expiresAt |-> Undefined, nodes |-> <<>>, edges |-> <<>>,
     selectedId |-> Undefined, viewport |-> DefaultViewport]

Text(parse) == [parse |-> parse, keys |-> {}, lists |-> {}, val |-> EmptyVal]

NoText == Text("none")

\* JSON.stringify(st): a key whose value is undefined is dropped
stringify(st) ==
    [parse |-> "object",
     keys  |-> {k \in Keys : k = "selectedId" => st.selectedId # Undefined},
     lists |-> {"nodes", "edges"},
     val   |-> st]

exportState(st) == stringify(st)

\* if (!s) return null; try JSON.parse catch null
safeParseJSON(s) == IF s.parse \in {"none", "throws"} THEN Null ELSE s

\* !parsed, for a value safeParseJSON returned
Falsy(parsed) == parsed = Null \/ parsed.parse = "falsy"

\* the object read as a MindState (`as T`): a missing property reads undefined
asState(parsed) ==
    IF parsed.parse # "object" THEN EmptyVal
    ELSE [k \in Keys |-> IF k \in parsed.keys THEN parsed.val[k] ELSE EmptyVal[k]]

\* !parsed.nodes || !Array.isArray(parsed.nodes)
NotAList(parsed, k) == parsed.parse # "object" \/ k \notin parsed.keys \/ k \notin parsed.lists

\* importState without the test of `edges`
importStateNoEdgesCheck(raw, t) ==
    LET parsed == safeParseJSON(raw)
    IN  IF Falsy(parsed) THEN Null
        ELSE IF NotAList(parsed, "nodes") THEN Null
        ELSE setWithTTL([asState(parsed) EXCEPT
                            !.version = 1,
                            !.updatedAt = t,
                            !.viewport = IF "viewport" \in parsed.keys
                                         THEN parsed.val.viewport
                                         ELSE DefaultViewport],
                        t)

\* importState that always takes the default viewport
importStateDefaultViewport(raw, t) ==
    LET parsed == safeParseJSON(raw)
    IN  IF Falsy(parsed) THEN Null
        ELSE IF NotAList(parsed, "nodes") THEN Null
        ELSE IF NotAList(parsed, "edges") THEN Null
        ELSE setWithTTL([asState(parsed) EXCEPT
                            !.version = 1,
                            !.updatedAt = t,
                            !.viewport = DefaultViewport],
                        t)

importState(raw, t) ==
    LET parsed == safeParseJSON(raw)
    IN  IF Falsy(parsed) THEN Null
        ELSE IF NotAList(parsed, "nodes") THEN Null
        ELSE IF NotAList(parsed, "edges") THEN Null
        ELSE setWithTTL([asState(parsed) EXCEPT
                            !.version = 1,
                            !.updatedAt = t,
                            !.viewport = IF "viewport" \in parsed.keys
                                         THEN parsed.val.viewport
                                         ELSE DefaultViewport],
                        t)

-----------------------------------------------------------------------------
(* The pure operations on a MindState.  `t` is now(); `u` is the number of  *)
(* ids uid() has handed out before the call, so the call draws u+1, u+2, ... *)

\* arr placed on a ring around (cx, cy): slot i of k at startAngle + i*2pi/k
placeRing(arr, cx, cy, radius, startAngle) ==
    LET k == Max(Len(arr), 1)
    IN  [i \in 1..Len(arr) |->
            LET a == startAngle + ((i - 1) * TwoPiMilli) \div k
            IN  [arr[i] EXCEPT !.x = PolarX(cx, a, radius),
                               !.y = PolarY(cy, a, radius)]]

Radius1 == 210
Radius2 == 370
Ring2Bias == 350

\* autoArrange taking a node's slot from its index among all the others
\* instead of its index within its ring
autoArrangeSlotOfOthers(st, t) ==
    IF Len(st.nodes) = 0 THEN st
    ELSE
      LET root == st.nodes[1]
          others == Tail(st.nodes)
          rootChildrenIds == {st.edges[i].to : i \in {j \in DOMAIN st.edges : st.edges[j].from = root.id}}
          IsChild(n) == n.id \in rootChildrenIds
          IsRest(n) == n.id \notin rootChildrenIds
          k1 == Max(Len(SelectSeq(others, IsChild)), 1)
          k2 == Max(Len(SelectSeq(others, IsRest)), 1)
          all == [i \in DOMAIN others |->
                     LET a == IF IsChild(others[i])
                              THEN 0 - HalfPiMilli + ((i - 1) * TwoPiMilli) \div k1
                              ELSE 0 - HalfPiMilli + Ring2Bias + ((i - 1) * TwoPiMilli) \div k2
                         radius == IF IsChild(others[i]) THEN Radius1 ELSE Radius2
                     IN  [others[i] EXCEPT !.x = PolarX(root.x, a, radius),
                                           !.y = PolarY(root.y, a, radius)]]
      IN  [st EXCEPT !.nodes = <<root>> \o SelectSeq(all, IsChild) \o SelectSeq(all, IsRest),
                     !.updatedAt = t]

\* autoArrange putting the root at the centre of the canvas first
autoArrangeCenteringRoot(st, t) ==
    IF Len(st.nodes) = 0 THEN st
    ELSE
      LET root == [st.nodes[1] EXCEPT !.x = CenterX, !.y = CenterY]
          others == Tail(st.nodes)
          rootChildrenIds == {st.edges[i].to : i \in {j \in DOMAIN st.edges : st.edges[j].from = root.id}}
          IsChild(n) == n.id \in rootChildrenIds
          IsRest(n) == n.id \notin rootChildrenIds
          rootChildren == SelectSeq(others, IsChild)
          rest == SelectSeq(others, IsRest)
          placed == placeRing(rootChildren, root.x, root.y, Radius1, 0 - HalfPiMilli)
                    \o placeRing(rest, root.x, root.y, Radius2, 0 - HalfPiMilli + Ring2Bias)
      IN  [st EXCEPT !.nodes = <<root>> \o placed, !.updatedAt = t]

autoArrange(st, t) ==
    IF Len(st.nodes) = 0 THEN st
    ELSE
      LET root == st.nodes[1]
          others == Tail(st.nodes)
          rootChildrenIds == {st.edges[i].to : i \in {j \in DOMAIN st.edges : st.edges[j].from = root.id}}
          IsChild(n) == n.id \in rootChildrenIds
          IsRest(n) == n.id \notin rootChildrenIds
          rootChildren == SelectSeq(others, IsChild)
          rest == SelectSeq(others, IsRest)
          placed == placeRing(rootChildren, root.x, root.y, Radius1, 0 - HalfPiMilli)
                    \o placeRing(rest, root.x, root.y, Radius2, 0 - HalfPiMilli + Ring2Bias)
      IN  [st EXCEPT !.nodes = <<root>> \o placed, !.updatedAt = t]

centerOnNode(st, id, t) ==
    LET n == getNode(st, id)
    IN  IF n = Null THEN st
        ELSE [st EXCEPT !.viewport.x = CenterX - n.x,
                        !.viewport.y = CenterY - n.y,
                        !.selectedId = id,
                        !.updatedAt = t]

\* the titles of the six blocks (lines 190-197), accents left out
Blocks == <<"These", "Risques", "Catalyseurs", "Valorisation", "Technique", "News">>

BaseR == 240

\* buildTemplateAround putting the new edges in place of the old ones
buildTemplateReplacingEdges(st, rootId, anchorTitle, t, u) ==
    LET root == getNode(st, rootId)
    IN  IF root = Null THEN st
        ELSE
          LET n == Len(Blocks)
              angle(i) == 0 - HalfPiMilli + ((i - 1) * TwoPiMilli) \div n
              newNodes == [i \in 1..n |->
                              MindNode(u + 2 * i - 1, Blocks[i],
                                       PolarX(root.x, angle(i), BaseR),
                                       PolarY(root.y, angle(i), BaseR))]
              newEdges == [i \in 1..n |-> MindEdge(u + 2 * i, root.id, u + 2 * i - 1)]
          IN  [st EXCEPT !.nodes = st.nodes \o newNodes,
                         !.edges = newEdges,
                         !.updatedAt = t]

buildTemplateAround(st, rootId, anchorTitle, t, u) ==
    LET root == getNode(st, rootId)
    IN  IF root = Null THEN st
        ELSE
          LET n == Len(Blocks)
              angle(i) == 0 - HalfPiMilli + ((i - 1) * TwoPiMilli) \div n
              newNodes == [i \in 1..n |->
                              MindNode(u + 2 * i - 1, Blocks[i],
                                       PolarX(root.x, angle(i), BaseR),
                                       PolarY(root.y, angle(i), BaseR))]
              newEdges == [i \in 1..n |-> MindEdge(u + 2 * i, root.id, u + 2 * i - 1)]
              nodes == [i \in DOMAIN st.nodes |->
                           IF st.nodes[i].id = root.id /\ anchorTitle # ""
                           THEN [st.nodes[i] EXCEPT !.title = sanitizeTitle(anchorTitle)]
                           ELSE st.nodes[i]]
          IN  [st EXCEPT !.nodes = nodes \o newNodes,
                         !.edges = st.edges \o newEdges,
                         !.updatedAt = t]

\* the state updater of select (line 383)
selectNode(st, id, t) == [st EXCEPT !.selectedId = id, !.updatedAt = t]

\* addNode tying a node created without parent to the root
addNodeAutoEdge(st, parentId, newTitle, jitter, t, u) ==
    LET title == IF sanitizeTitle(newTitle) # "" THEN sanitizeTitle(newTitle) ELSE "Nouvelle idee"
        base == IF parentId # Undefined THEN getNode(st, parentId)
                ELSE IF Len(st.nodes) > 0 THEN st.nodes[1] ELSE Null
        bx == IF base = Null THEN CenterX ELSE base.x
        by == IF base = Null THEN CenterY ELSE base.y
        n == MindNode(u + 1, title, bx + 220 + jitter[1], by + jitter[2])
        from == IF parentId # Undefined THEN parentId ELSE RootId(st)
    IN  [st EXCEPT !.nodes = Append(st.nodes, n),
                   !.edges = Append(st.edges, MindEdge(u + 2, from, n.id)),
                   !.selectedId = n.id,
                   !.updatedAt = t]

\* the state updater of addNode (lines 393-415); parentId may be Undefined
addNodeTo(st, parentId, newTitle, jitter, t, u) ==
    LET title == IF sanitizeTitle(newTitle) # "" THEN sanitizeTitle(newTitle) ELSE "Nouvelle idee"
        base == IF parentId # Undefined THEN getNode(st, parentId)
                ELSE IF Len(st.nodes) > 0 THEN st.nodes[1] ELSE Null
        bx == IF base = Null THEN CenterX ELSE base.x
        by == IF base = Null THEN CenterY ELSE base.y
        n == MindNode(u + 1, title, bx + 220 + jitter[1], by + jitter[2])
        next == [st EXCEPT !.nodes = Append(st.nodes, n),
                           !.selectedId = n.id,
                           !.updatedAt = t]
    IN  IF parentId # Undefined
        THEN [next EXCEPT !.edges = Append(next.edges, MindEdge(u + 2, parentId, n.id))]
        ELSE next

\* removeSelected keeping the edges that lead to the removed node
removeNodeKeepingInEdges(st, id, t) ==
    LET rootId == RootId(st)
        Keep(n) == n.id # id
        KeepEdge(e) == e.from # id
        nextNodes == SelectSeq(st.nodes, Keep)
        nextEdges == SelectSeq(st.edges, KeepEdge)
        first == IF Len(nextNodes) = 0 THEN Undefined ELSE nextNodes[1].id
        nextSelected == IF id = rootId THEN first
                        ELSE IF rootId # Undefined THEN rootId ELSE first
    IN  [st EXCEPT !.nodes = nextNodes, !.edges = nextEdges,
                   !.selectedId = nextSelected, !.updatedAt = t]

\* removeSelected selecting the former root's id whatever node was removed
removeNodeSelectingOldRoot(st, id, t) ==
    LET rootId == RootId(st)
        Keep(n) == n.id # id
        KeepEdge(e) == e.from # id /\ e.to # id
        nextNodes == SelectSeq(st.nodes, Keep)
        nextEdges == SelectSeq(st.edges, KeepEdge)
        first == IF Len(nextNodes) = 0 THEN Undefined ELSE nextNodes[1].id
        nextSelected == IF rootId # Undefined THEN rootId ELSE first
    IN  [st EXCEPT !.nodes = nextNodes, !.edges = nextEdges,
                   !.selectedId = nextSelected, !.updatedAt = t]

\* the state updater of removeSelected (lines 427-433), id = state.selectedId
removeNode(st, id, t) ==
    LET rootId == RootId(st)
        Keep(n) == n.id # id
        KeepEdge(e) == e.from # id /\ e.to # id
        nextNodes == SelectSeq(st.nodes, Keep)
        nextEdges == SelectSeq(st.edges, KeepEdge)
        first == IF Len(nextNodes) = 0 THEN Undefined ELSE nextNodes[1].id
        nextSelected == IF id = rootId THEN first
                        ELSE IF rootId # Undefined THEN rootId ELSE first
    IN  [st EXCEPT !.nodes = nextNodes, !.edges = nextEdges,
                   !.selectedId = nextSelected, !.updatedAt = t]

\* the state updater of updateSelected (lines 440-444) for a title patch
updateNode(st, id, title, t) ==
    [st EXCEPT !.nodes = [i \in DOMAIN st.nodes |->
                             IF st.nodes[i].id = id
                             THEN [st.nodes[i] EXCEPT !.title = title]
                             ELSE st.nodes[i]],
               !.updatedAt = t]

\* state.edges.some((e) => e.from === root.id && e.to === id)
edgeExists(st, from, to) ==
    \E i \in DOMAIN st.edges : st.edges[i].from = from /\ st.edges[i].to = to

\* connectToRoot without the test `exists`
connectToRootNoExists(st, id, t, u) ==
    IF Len(st.nodes) = 0 THEN st
    ELSE [st EXCEPT !.edges = Append(st.edges, MindEdge(u + 1, st.nodes[1].id, id)),
                    !.updatedAt = t]

\* connectToRoot (lines 450-460): the state it leaves
connectToRoot(st, id, t, u) ==
    IF Len(st.nodes) = 0 THEN st
    ELSE IF edgeExists(st, st.nodes[1].id, id) THEN st
    ELSE [st EXCEPT !.edges = Append(st.edges, MindEdge(u + 1, st.nodes[1].id, id)),
                    !.updatedAt = t]

\* the state updater of the seed effect (lines 323-334)
seedRename(st, sym, t) ==
    IF Len(st.nodes) = 0 THEN st
    ELSE IF ~(st.nodes[1].title = "Nouvelle note" \/ StartsWithNotes(st.nodes[1].title)) THEN st
    ELSE setWithTTL([st EXCEPT !.nodes[1].title = sanitizeTitle(NotesOf(sym))], t)

-----------------------------------------------------------------------------
(* Viewport arithmetic on integers *)

\* a / b rounded to nearest, b > 0
DivRound(a, b) == (2 * a + b) \div (2 * b)

\* zoom * pct / 100
scaleZoom(zoom, pct) == DivRound(zoom * pct, 100)

\* world = (screen - translation) / zoom
worldOf(m, v, zoom) == DivRound((m - v) * ZoomOne, zoom)

\* onWheel solving the translation for the zoom before it is clamped
wheelViewportUnclampedAnchor(vp, deltaY, mx, my) ==
    LET delta == 0 - deltaY
        factor == IF delta > 0 THEN 106 ELSE 94
        rawZoom == scaleZoom(vp.zoom, factor)
        nextZoom == clamp(rawZoom, ZoomMin, ZoomMax)
        wx == worldOf(mx, vp.x, vp.zoom)
        wy == worldOf(my, vp.y, vp.zoom)
    IN  [x |-> mx - MulMilli(wx, rawZoom), y |-> my - MulMilli(wy, rawZoom), zoom |-> nextZoom]

\* the viewport onWheel sets (lines 575-587) for cursor (mx, my)
wheelViewport(vp, deltaY, mx, my) ==
    LET delta == 0 - deltaY
        factor == IF delta > 0 THEN 106 ELSE 94
        nextZoom == clamp(scaleZoom(vp.zoom, factor), ZoomMin, ZoomMax)
        wx == worldOf(mx, vp.x, vp.zoom)
        wy == worldOf(my, vp.y, vp.zoom)
    IN  [x |-> mx - MulMilli(wx, nextZoom), y |-> my - MulMilli(wy, nextZoom), zoom |-> nextZoom]

\* the viewport the zoom keys set (lines 513-515)
keyZoom(vp, key) ==
    IF key = "0" THEN [vp EXCEPT !.zoom = ZoomOne]
    ELSE IF key = "+" THEN [vp EXCEPT !.zoom = clamp(scaleZoom(vp.zoom, 108), ZoomMin, ZoomMax)]
    ELSE [vp EXCEPT !.zoom = clamp(scaleZoom(vp.zoom, 92), ZoomMin, ZoomMax)]

-----------------------------------------------------------------------------
(* Inputs *)

\* what addNode reads besides its argument: newTitle of the "Creer une bulle"
\* field, and the draws (Math.random() * 40 - 20, Math.random() * 120 - 60)
AddInputs == {[newTitle |-> "", jitter |-> <<-20, -60>>],
              [newTitle |-> " Idea ", jitter |-> <<19, 59>>]}

\* pointer positions relative to the canvas (clientX - rect.left, ...)
Points == {<<0, 0>>, <<300, 200>>}

\* wheel events: e.deltaY and the pointer position
WheelInputs == {[deltaY |-> -100, pt |-> <<300, 200>>], [deltaY |-> 100, pt |-> <<0, 0>>]}

\* the viewport an earlier session left: zoomed in to 1.75
StoredViewport == [x |-> 0, y |-> 0, zoom |-> 1750]

\* a graph written by an earlier session, created at time c
StoredState(c) ==
    [version    |-> 1,
     createdAt  |-> c,
     updatedAt  |-> c,
     expiresAt  |-> c + TTL_MS,
     nodes      |-> <<MindNode(1, "Nouvelle note", CenterX, CenterY),
                      MindNode(2, "Idea", CenterX + 200, CenterY)>>,
     edges      |-> <<>>,
     selectedId |-> 2,
     viewport   |-> StoredViewport]

\* ids handed out by earlier sessions
PriorUids == 2

\* what localStorage may hold at mount
InitialStorage ==
    {NoText, stringify(StoredState(T0 - TickMs)), stringify(StoredState(T0 - 3 * TickMs))}

\* a hand-written document: two nodes under one id, no createdAt, no viewport
DupDoc ==
    [parse |-> "object",
     keys  |-> {"version", "nodes", "edges", "selectedId"},
     lists |-> {"nodes", "edges"},
     val   |-> [EmptyVal EXCEPT
                  !.version = 7,
                  !.nodes = <<MindNode(101, "A", 0, 0), MindNode(101, "B", 80, 0)>>,
                  !.edges = <<MindEdge(103, 101, 101)>>,
                  !.selectedId = 101]]

\* a hand-written document without nodes
EmptyDoc ==
    [parse |-> "object",
     keys  |-> {"nodes", "edges"},
     lists |-> {"nodes", "edges"},
     val   |-> EmptyVal]

\* a hand-written document: selectedId names no node, zoom is 3
LooseDoc ==
    [parse |-> "object",
     keys  |-> {"nodes", "edges", "selectedId", "viewport"},
     lists |-> {"nodes", "edges"},
     val   |-> [EmptyVal EXCEPT
                  !.nodes = <<MindNode(201, "C", CenterX, CenterY)>>,
                  !.selectedId = 999,
                  !.viewport = [x |-> 0, y |-> 0, zoom |-> 3000]]]

\* an export made 36 hours before t: the stored graph with its first node
\* selected and an edge from the second node to the first
OldDoc(t) ==
    stringify([StoredState(t - 3 * TickMs) EXCEPT !.selectedId = 1,
                                                   !.edges = <<MindEdge(3, 2, 1)>>])

\* an object whose key k is missing
Without(doc, k) == [doc EXCEPT !.keys = @ \ {k}, !.lists = @ \ {k}]

\* an object whose key k holds something that is no array
NotList(doc, k) == [doc EXCEPT !.lists = @ \ {k}]

\* the texts the user may paste into the import box at time t, the current
\* export among them
ImportTexts(st, t) ==
    {Text("throws"), Without(DupDoc, "edges"), NotList(DupDoc, "nodes"),
     exportState(st), DupDoc, OldDoc(t), EmptyDoc, LooseDoc}

\* further texts that are no graph document
MalformedTexts ==
    {NoText, Text("throws"), Text("falsy"), Text("scalar"),
     Without(DupDoc, "nodes"), Without(DupDoc, "edges"),
     NotList(DupDoc, "nodes"), NotList(DupDoc, "edges")}

-----------------------------------------------------------------------------
(* Initial state: the first render, before any effect has run *)

NoTimer == [armed |-> FALSE, st |-> Null]

Init ==
    /\ seedSymbol \in {"", "AAPL"}
    /\ clock = T0
    /\ nextUid = PriorUids + 1
    /\ state = defaultState(SeedTitle(seedSymbol), T0, PriorUids + 1)
    /\ hydrated = FALSE
    /\ storage \in InitialStorage
    /\ storageOk = TRUE
    /\ mounted = TRUE
    /\ timer = NoTimer
    /\ importText = NoText
    /\ isPanning = FALSE
    /\ panRef = Null
    /\ dragId = Undefined
    /\ dragRef = Null
    /\ cmds = 0
    /\ lastOp = "mount"
    /\ burst = 0
    /\ pasted = NoText

-----------------------------------------------------------------------------
(* Effects *)

\* the persist effect without its cleanup: a pending timeout stays as it is
PersistEffectNoCleanup(st) == IF timer.armed THEN timer ELSE [armed |-> TRUE, st |-> st]

\* The persist effect (lines 339-346) after a render with a new state object:
\* the cleanup clears the pending timeout, then a new one is set that holds
\* the rendered state.
PersistEffect(st) == [armed |-> TRUE, st |-> st]

pointer == <<isPanning, panRef, dragId, dragRef>>

\* An uncaught error while rendering or in an effect unmounts the tree; the
\* effect cleanups clear the timeout and the interval.
Unmount ==
    /\ mounted' = FALSE
    /\ timer' = NoTimer

\* the hydrate effect taking the else branch whatever storage holds
HydrateAlwaysFresh ==
    /\ mounted /\ ~hydrated
    /\ LET fresh == defaultState(SeedTitle(seedSymbol), clock, nextUid + 1)
           seeded == IF seedSymbol # "" THEN seedRename(fresh, seedSymbol, clock) ELSE fresh
       IN  /\ nextUid' = nextUid + 1
           /\ IF storageOk
              THEN /\ storage' = stringify(fresh)
                   /\ state' = seeded
                   /\ hydrated' = TRUE
                   /\ timer' = PersistEffect(seeded)
                   /\ burst' = 1
                   /\ mounted' = mounted
                   /\ lastOp' = "hydrate"
              ELSE /\ Unmount
                   /\ lastOp' = "hydrate/throws"
                   /\ UNCHANGED <<storage, state, hydrated, burst>>
    /\ UNCHANGED <<storageOk, clock, seedSymbol, importText, pointer, pasted, cmds>>

\* The hydrate effect (lines 305-317), followed in the same commit by the seed
\* effect (lines 320-336), which runs because `hydrated` changed, and by the
\* persist effect.
Hydrate ==
    /\ mounted /\ ~hydrated
    /\ LET saved == safeParseJSON(storage)
           usable == ~Falsy(saved) /\ ~isExpired(asState(saved), clock)
           fresh == defaultState(SeedTitle(seedSymbol), clock, nextUid + 1)
           loaded == IF usable THEN asState(saved) ELSE fresh
           seeded == IF seedSymbol # "" THEN seedRename(loaded, seedSymbol, clock) ELSE loaded
       IN  /\ nextUid' = IF usable THEN nextUid ELSE nextUid + 1
           /\ IF usable \/ storageOk
              THEN /\ storage' = IF usable THEN storage ELSE stringify(fresh)
                   /\ state' = seeded
                   /\ hydrated' = TRUE
                   /\ timer' = PersistEffect(seeded)
                   /\ burst' = 1
                   /\ mounted' = mounted
                   /\ lastOp' = "hydrate"
              ELSE /\ Unmount
                   /\ lastOp' = "hydrate/throws"
                   /\ UNCHANGED <<storage, state, hydrated, burst>>
    /\ UNCHANGED <<storageOk, clock, seedSymbol, importText, pointer, pasted, cmds>>

\* The timeout of the persist effect fires (lines 341-344).
TimerFire ==
    /\ mounted /\ timer.armed
    /\ timer' = NoTimer
    /\ IF storageOk
       THEN storage' = stringify(setWithTTL(timer.st, clock)) /\ lastOp' = "persist"
       ELSE storage' = storage /\ lastOp' = "persist/throws"
    /\ UNCHANGED <<state, hydrated, storageOk, mounted, clock, nextUid, seedSymbol,
                   importText, pointer, pasted, cmds, burst>>

\* the expiry interval leaving the write to the persist effect
SweepDeferredWrite ==
    /\ mounted /\ hydrated
    /\ IF ~isExpired(state, clock)
       THEN UNCHANGED <<state, storage, timer, mounted, nextUid, lastOp, burst>>
       ELSE LET fresh == defaultState("", clock, nextUid + 1)
            IN  /\ nextUid' = nextUid + 1
                /\ storage' = storage
                /\ state' = fresh
                /\ timer' = PersistEffect(fresh)
                /\ burst' = IF timer.armed THEN burst + 1 ELSE 1
                /\ mounted' = mounted
                /\ lastOp' = "sweep"
    /\ UNCHANGED <<hydrated, storageOk, clock, seedSymbol, importText, pointer, pasted, cmds>>

\* One tick of the expiry interval (lines 351-358).  setItem runs inside the
\* state updater, so its exception is a render error.
Sweep ==
    /\ mounted /\ hydrated
    /\ IF ~isExpired(state, clock)
       THEN UNCHANGED <<state, storage, timer, mounted, nextUid, lastOp, burst>>
       ELSE LET fresh == defaultState("", clock, nextUid + 1)
            IN  /\ nextUid' = nextUid + 1
                /\ IF storageOk
                   THEN /\ storage' = stringify(fresh)
                        /\ state' = fresh
                        /\ timer' = PersistEffect(fresh)
                        /\ burst' = IF timer.armed THEN burst + 1 ELSE 1
                        /\ mounted' = mounted
                        /\ lastOp' = "sweep"
                   ELSE /\ Unmount
                        /\ lastOp' = "sweep/throws"
                        /\ UNCHANGED <<storage, state, burst>>
    /\ UNCHANGED <<hydrated, storageOk, clock, seedSymbol, importText, pointer, pasted, cmds>>

\* The seed effect when router.query.symbol changes (lines 320-336).
SeedChange(sym) ==
    /\ mounted /\ hydrated /\ cmds < MaxCmds
    /\ sym # seedSymbol
    /\ seedSymbol' = sym
    /\ cmds' = cmds + 1
    /\ LET renamed == seedRename(state, sym, clock)
           bail == sym = "" \/ Len(state.nodes) = 0
                   \/ ~(state.nodes[1].title = "Nouvelle note" \/ StartsWithNotes(state.nodes[1].title))
       IN  IF bail
           THEN lastOp' = "seed/kept" /\ UNCHANGED <<state, timer, burst>>
           ELSE /\ lastOp' = "seed"
                /\ state' = renamed
                /\ timer' = PersistEffect(renamed)
                /\ burst' = IF timer.armed THEN burst + 1 ELSE 1
    /\ UNCHANGED <<hydrated, storage, storageOk, mounted, clock, nextUid, importText, pointer, pasted>>

-----------------------------------------------------------------------------
(* Environment *)

\* Time passes, by TickMs.  The effects run right after the first render, a
\* pending timeout fires after 120 ms (line 344) and the interval after 15 s
\* (line 358), so by then the editor has hydrated, no timeout is pending and
\* an expired state has met its sweep.
Tick ==
    /\ mounted /\ hydrated
    /\ ~timer.armed
    /\ ~isExpired(state, clock)
    /\ clock < T0 + MaxTicks * TickMs
    /\ clock' = clock + TickMs
    /\ UNCHANGED <<state, hydrated, storage, storageOk, mounted, timer, nextUid,
                   seedSymbol, importText, pointer, pasted, cmds, lastOp, burst>>

\* localStorage stops accepting writes (quota reached, storage disabled).
StorageFails ==
    /\ mounted /\ storageOk
    /\ storageOk' = FALSE
    /\ UNCHANGED <<state, hydrated, storage, mounted, timer, clock, nextUid,
                   seedSymbol, importText, pointer, pasted, cmds, lastOp, burst>>

-----------------------------------------------------------------------------
(* User commands.  Each is one event handler run to completion, the render  *)
(* and the persist effect that follow included.                             *)

\* a command is accepted: the editor is mounted and has hydrated
Accepts == mounted /\ hydrated /\ cmds < MaxCmds

\* the command `op` leaves state `st`; `bail` when the handler returned early
\* or the updater returned `prev` itself (no render, no effect)
Commit(op, st, bail) ==
    /\ cmds' = cmds + 1
    /\ lastOp' = op
    /\ IF bail THEN UNCHANGED <<state, timer, burst>>
       ELSE /\ state' = st
            /\ timer' = PersistEffect(st)
            /\ burst' = IF timer.armed THEN burst + 1 ELSE 1

frame == <<hydrated, storage, storageOk, mounted, clock, seedSymbol, importText>>

\* resetAll (lines 470-474): setItem comes first, so its exception leaves the
\* handler before setState.
ResetAll ==
    /\ Accepts
    /\ LET fresh == defaultState(SeedTitle(seedSymbol), clock, nextUid + 1)
       IN  /\ nextUid' = nextUid + 1
           /\ IF storageOk
              THEN storage' = stringify(fresh) /\ Commit("resetAll", fresh, FALSE)
              ELSE storage' = storage /\ Commit("resetAll/throws", state, TRUE)
    /\ UNCHANGED <<hydrated, storageOk, mounted, clock, seedSymbol, importText, pointer, pasted>>

\* The user pastes `text` into the import box and presses Importer
\* (setImportText, line 1131; doImport, lines 485-492).  setState comes before
\* setItem, so an exception of setItem leaves the box as it is.
DoImport(text) ==
    /\ Accepts
    /\ text.parse # "none"
    /\ LET st == importState(text, clock)
       IN  IF st = Null
           THEN /\ Commit("doImport/rejected", state, TRUE)
                /\ importText' = text
                /\ storage' = storage
           ELSE /\ Commit("doImport", st, FALSE)
                /\ storage' = IF storageOk THEN stringify(st) ELSE storage
                /\ importText' = IF storageOk THEN NoText ELSE text
    /\ pasted' = text
    /\ UNCHANGED <<hydrated, storageOk, mounted, clock, seedSymbol, nextUid,
                   isPanning, panRef, dragId, dragRef>>

\* select (line 382), from a click on node `id`
Select(id) ==
    /\ Accepts
    /\ Commit("select", selectNode(state, id, clock), FALSE)
    /\ UNCHANGED <<frame, nextUid, pointer, pasted>>

\* addNode (lines 386-420)
AddNode(parentId, in) ==
    /\ Accepts
    /\ Commit("addNode", addNodeTo(state, parentId, in.newTitle, in.jitter, clock, nextUid), FALSE)
    /\ nextUid' = nextUid + (IF parentId # Undefined THEN 2 ELSE 1)
    /\ UNCHANGED <<frame, pointer, pasted>>

\* removeSelected (lines 422-434), from the Delete and Backspace keys (line 512)
\* and the Supprimer button (line 1103)
RemoveSelected ==
    /\ Accepts
    /\ IF state.selectedId = Undefined \/ Len(state.nodes) = 1
       THEN Commit("removeSelected/refused", state, TRUE)
       ELSE Commit("removeSelected", removeNode(state, state.selectedId, clock), FALSE)
    /\ UNCHANGED <<frame, nextUid, pointer, pasted>>

\* updateSelected({ title: sanitizeTitle(e.target.value) }) (lines 436-447, 1041)
UpdateSelected(typed) ==
    /\ Accepts
    /\ IF state.selectedId = Undefined
       THEN Commit("updateSelected/refused", state, TRUE)
       ELSE Commit("updateSelected",
                   updateNode(state, state.selectedId, sanitizeTitle(typed), clock), FALSE)
    /\ UNCHANGED <<frame, nextUid, pointer, pasted>>

\* connectToRoot (lines 449-462)
ConnectToRoot(id) ==
    /\ Accepts
    /\ LET next == connectToRoot(state, id, clock, nextUid)
           bail == next = state
       IN  /\ Commit(IF bail THEN "connectToRoot/exists" ELSE "connectToRoot", next, bail)
           /\ nextUid' = IF bail THEN nextUid ELSE nextUid + 1
    /\ UNCHANGED <<frame, pointer, pasted>>

\* applyTemplate (lines 464-468)
ApplyTemplate ==
    /\ Accepts
    /\ IF Len(state.nodes) = 0
       THEN Commit("applyTemplate/refused", state, TRUE) /\ nextUid' = nextUid
       ELSE /\ Commit("applyTemplate",
                      buildTemplateAround(state, state.nodes[1].id, state.nodes[1].title,
                                          clock, nextUid), FALSE)
            /\ nextUid' = nextUid + 2 * Len(Blocks)
    /\ UNCHANGED <<frame, pointer, pasted>>

\* doAutoArrange (lines 476-478)
DoAutoArrange ==
    /\ Accepts
    /\ LET bail == Len(state.nodes) = 0
       IN  Commit(IF bail THEN "autoArrange/refused" ELSE "autoArrange",
                  autoArrange(state, clock), bail)
    /\ UNCHANGED <<frame, nextUid, pointer, pasted>>

\* the Centrer button and the C key (lines 510, 803)
Center ==
    /\ Accepts
    /\ LET id == IF state.selectedId # Undefined THEN state.selectedId ELSE RootId(state)
           bail == getNode(state, id) = Null
       IN  Commit(IF bail THEN "center/refused" ELSE "center", centerOnNode(state, id, clock), bail)
    /\ UNCHANGED <<frame, nextUid, pointer, pasted>>

\* a quick-symbol chip (lines 777-792)
QuickSymbol(sym) ==
    /\ Accepts
    /\ IF Len(state.nodes) = 0
       THEN Commit("quickSymbol/refused", state, TRUE)
       ELSE Commit("quickSymbol",
                   centerOnNode([state EXCEPT !.nodes[1].title = NotesOf(sym), !.updatedAt = clock],
                                state.nodes[1].id, clock), FALSE)
    /\ UNCHANGED <<frame, nextUid, pointer, pasted>>

\* the keys 0, + and - (lines 513-515)
ZoomKey(key) ==
    /\ Accepts
    /\ Commit("zoomKey", [state EXCEPT !.viewport = keyZoom(state.viewport, key),
                                       !.updatedAt = clock], FALSE)
    /\ UNCHANGED <<frame, nextUid, pointer, pasted>>

\* onWheel (lines 571-594)
Wheel(in) ==
    /\ Accepts
    /\ Commit("wheel", [state EXCEPT !.viewport = wheelViewport(state.viewport, in.deltaY,
                                                                in.pt[1], in.pt[2]),
                                     !.updatedAt = clock], FALSE)
    /\ UNCHANGED <<frame, nextUid, pointer, pasted>>

-----------------------------------------------------------------------------
(* Pointer gestures *)

\* onCanvasMouseDown (lines 522-526), the target not being a node
CanvasMouseDown(pt) ==
    /\ Accepts
    /\ isPanning' = TRUE
    /\ panRef' = [sx |-> pt[1], sy |-> pt[2], vx |-> state.viewport.x, vy |-> state.viewport.y]
    /\ Commit("canvasMouseDown", state, TRUE)
    /\ UNCHANGED <<frame, nextUid, dragId, dragRef, pasted>>

\* startDragNode (lines 596-607) on the i-th node; stopPropagation keeps the
\* event from the canvas handler
StartDragNode(i, pt) ==
    /\ Accepts
    /\ i \in DOMAIN state.nodes
    /\ LET node == state.nodes[i]
           wx == worldOf(pt[1], state.viewport.x, state.viewport.zoom)
           wy == worldOf(pt[2], state.viewport.y, state.viewport.zoom)
       IN  /\ dragId' = node.id
           /\ dragRef' = [dx |-> wx - node.x, dy |-> wy - node.y]
           /\ Commit("startDragNode", selectNode(state, node.id, clock), FALSE)
    /\ UNCHANGED <<frame, nextUid, isPanning, panRef, pasted>>

\* the state updater of a drag move (lines 537-550)
dragMove(st, id, ref, pt, t) ==
    LET worldX == worldOf(pt[1], st.viewport.x, st.viewport.zoom)
        worldY == worldOf(pt[2], st.viewport.y, st.viewport.zoom)
    IN  [st EXCEPT !.nodes = [i \in DOMAIN st.nodes |->
                                 IF st.nodes[i].id = id
                                 THEN [st.nodes[i] EXCEPT !.x = snap(worldX - ref.dx, 8),
                                                          !.y = snap(worldY - ref.dy, 8)]
                                 ELSE st.nodes[i]],
                   !.updatedAt = t]

\* the state updater of a pan move (lines 555-561)
panMove(st, ref, pt, t) ==
    [st EXCEPT !.viewport.x = ref.vx + (pt[1] - ref.sx),
               !.viewport.y = ref.vy + (pt[2] - ref.sy),
               !.updatedAt = t]

\* onCanvasMouseMove (lines 528-562)
CanvasMouseMove(pt) ==
    /\ Accepts
    /\ IF dragId # Undefined /\ dragRef # Null
       THEN Commit("mouseMove/drag", dragMove(state, dragId, dragRef, pt, clock), FALSE)
       ELSE IF ~isPanning \/ panRef = Null
       THEN Commit("mouseMove/idle", state, TRUE)
       ELSE Commit("mouseMove/pan", panMove(state, panRef, pt, clock), FALSE)
    /\ UNCHANGED <<frame, nextUid, pointer, pasted>>

\* onCanvasMouseUp (lines 564-569), also bound to onMouseLeave (line 832)
CanvasMouseUp ==
    /\ Accepts
    /\ isPanning' = FALSE
    /\ panRef' = Null
    /\ dragId' = Undefined
    /\ dragRef' = Null
    /\ Commit("canvasMouseUp", state, TRUE)
    /\ UNCHANGED <<frame, nextUid, pasted>>

-----------------------------------------------------------------------------
(* Specifications *)

Next ==
    \/ Hydrate
    \/ TimerFire
    \/ Sweep
    \/ Tick
    \/ \E sym \in Seeds \cup {""} : SeedChange(sym)
    \/ ResetAll
    \/ \E text \in ImportTexts(state, clock) : DoImport(text)
    \/ \E id \in NodeIds(state) : Select(id)
    \/ \E parentId \in NodeIds(state) \cup {Undefined}, in \in AddInputs : AddNode(parentId, in)
    \/ RemoveSelected
    \/ \E typed \in TypedTitles : UpdateSelected(typed)
    \/ \E id \in NodeIds(state) \ {RootId(state)} : ConnectToRoot(id)
    \/ ApplyTemplate
    \/ DoAutoArrange
    \/ Center
    \/ \E sym \in Seeds : QuickSymbol(sym)
    \/ \E key \in {"0", "+", "-"} : ZoomKey(key)
    \/ \E in \in WheelInputs : Wheel(in)
    \/ \E pt \in Points : CanvasMouseDown(pt)
    \/ \E i \in DOMAIN state.nodes, pt \in Points : StartDragNode(i, pt)
    \/ \E pt \in Points : CanvasMouseMove(pt)
    \/ CanvasMouseUp

\* the editor with a storage that accepts every write
Spec == Init /\ [][Next]_vars

\* the same, the interval of the expiry effect firing every 15 s (line 358)
SpecLive == Spec /\ WF_vars(Sweep)

\* the editor with a storage that may stop accepting writes
SpecFail == Init /\ [][Next \/ StorageFails]_vars

-----------------------------------------------------------------------------
(* Properties *)

\* a step of the Importer button, whatever text is in the box
ImportStep == \E text \in ImportTexts(state, clock) : DoImport(text)

\* C1: from a graph with at least one node a remove-selected command never
\* leaves a graph without nodes, and issued on a graph of exactly one node it
\* leaves the state as it is.
C1_DeleteKeepsANode ==
    [][(RemoveSelected /\ Len(state.nodes) >= 1)
          => /\ Len(state'.nodes) >= 1
             /\ (Len(state.nodes) = 1 => state' = state)]_vars

\* a text that does not parse to an object, or whose `nodes` or `edges` is
\* missing or is no list
Malformed(text) ==
    \/ text.parse # "object"
    \/ \E k \in {"nodes", "edges"} : k \notin text.keys \/ k \notin text.lists

\* C2: importState returns null for every malformed text, and an import
\* command given a malformed text leaves the in-memory state and the stored
\* text exactly as they were.
C2_MalformedImportChangesNothing ==
    /\ [](\A text \in MalformedTexts : Malformed(text) /\ importState(text, clock) = Null)
    /\ [][(ImportStep /\ Malformed(pasted'))
             => /\ importState(pasted', clock) = Null
                /\ state' = state
                /\ storage' = storage]_vars

\* C2 witness: an import of a document without `edges` was rejected while the
\* editor held a graph of two nodes.
C2_Witness ==
    /\ lastOp = "doImport/rejected"
    /\ pasted = Without(DupDoc, "edges")
    /\ Len(state.nodes) >= 2
    /\ storage # NoText

\* C3: importing the export of the current state succeeds and gives back the
\* same nodes in the same order, the same edges, selectedId and viewport;
\* nothing but updatedAt and expiresAt may differ.
C3_ExportImportRoundTrip ==
    LET r == importState(exportState(state), clock)
    IN  /\ r # Null
        /\ \A k \in Keys \ {"updatedAt", "expiresAt"} : r[k] = state[k]

\* C3 witness: the user zoomed a graph of two nodes, exported it and imported
\* the export; the editor holds the nodes and the viewport of before.
C3_Witness ==
    /\ lastOp = "doImport"
    /\ pasted.keys = Keys
    /\ pasted.val.nodes = state.nodes
    /\ pasted.val.viewport = state.viewport
    /\ pasted.val.selectedId = state.selectedId
    /\ Len(state.nodes) >= 2
    /\ state.viewport # DefaultViewport

\* now has reached expiresAt
Stale == state.expiresAt <= clock

\* a default graph created at `clock`: one node, no edge, the default
\* viewport, a window of 24 hours
FreshDefault(st) ==
    /\ Len(st.nodes) = 1
    /\ st.edges = <<>>
    /\ st.viewport = DefaultViewport
    /\ st.selectedId = st.nodes[1].id
    /\ st.createdAt = clock
    /\ st.expiresAt = st.createdAt + TTL_MS

\* C4: a tick of the expiry interval on an expired state of the hydrated
\* editor replaces the state by a fresh default and writes it to storage in
\* the same step, a tick on a state that has not expired changes nothing, and
\* every expired state is eventually replaced.
C4_ExpirySweep ==
    /\ [][Sweep => IF Stale
                   THEN FreshDefault(state') /\ storage' = stringify(state')
                   ELSE state' = state /\ storage' = storage]_vars
    /\ ((mounted /\ hydrated /\ Stale) ~> ~Stale)

\* C4 witness: the sweep has replaced a graph by a fresh default, which is
\* what storage holds.
C4_Witness ==
    /\ lastOp = "sweep"
    /\ FreshDefault(state)
    /\ storage = stringify(state)
    /\ cmds >= 1
    /\ clock > T0

\* the commands and effects that edit the graph
EditOps ==
    {"select", "addNode", "removeSelected", "updateSelected", "connectToRoot",
     "applyTemplate", "autoArrange", "center", "quickSymbol", "zoomKey", "wheel",
     "startDragNode", "mouseMove/drag", "mouseMove/pan", "seed"}

\* C5: an edit (add, delete, update, connect, select, template, auto-arrange,
\* center, pan, zoom, drag, seed rename) leaves createdAt and expiresAt as
\* they were; updatedAt alone moves, to the time of the edit.
C5_EditsKeepTheWindow ==
    [][(cmds' = cmds + 1 /\ lastOp' \in EditOps)
          => /\ state'.createdAt = state.createdAt
             /\ state'.expiresAt = state.expiresAt
             /\ state'.updatedAt = clock
             /\ state'.updatedAt >= state.updatedAt]_vars

\* C5 witness: the seed effect renamed the root of a graph created twelve
\* hours earlier, and the window still starts at the creation.
C5_Witness ==
    /\ lastOp = "seed"
    /\ state.createdAt < clock
    /\ state.updatedAt = clock
    /\ state.expiresAt = state.createdAt + TTL_MS
    /\ state.nodes[1].title = "Notes: AAPL"

\* C6: after a successful import the state was created at the import time,
\* expires 24 hours after it, and has version 1, whatever the document said.
C6_ImportRefreshesTheWindow ==
    lastOp = "doImport"
        => /\ state.createdAt = state.updatedAt
           /\ state.expiresAt = state.updatedAt + TTL_MS
           /\ state.version = 1

\* C7: every change of state arms the timeout anew with the changed state, so
\* a pending timeout always holds the current state, and what the timeout
\* writes is the state current when it fires.
C7_DebouncedSave ==
    /\ [](timer.armed => timer.st = state)
    /\ [][(state' # state /\ mounted') => (timer'.armed /\ timer'.st = state')]_vars
    /\ [][TimerFire => (storage' = stringify(setWithTTL(state, clock)) /\ state' = state)]_vars

\* C7 witness: the timeout fired after a burst of three renders and wrote the
\* last of them.
C7_Witness ==
    /\ lastOp = "persist"
    /\ burst >= 3
    /\ cmds = 2
    /\ storage = stringify(setWithTTL(state, clock))

\* C8: while storage refuses the writes of the hydrated editor, resetAll, a
\* successful import and the sweep of an expired state replace the in-memory
\* state as they do with a working storage, a failing debounced save leaves
\* the state as it is, and the editor stays mounted, so that later commands
\* are accepted.
C8_StorageFailureIsSwallowed ==
    [][(hydrated /\ ~storageOk)
          => /\ ResetAll => state' = defaultState(SeedTitle(seedSymbol), clock, nextUid + 1)
             /\ (ImportStep /\ importState(pasted', clock) # Null)
                   => state' = importState(pasted', clock)
             /\ (Sweep /\ Stale) => FreshDefault(state')
             /\ TimerFire => state' = state
             /\ mounted => mounted']_vars

\* the edges of st that lead from `from` to `to`
PairCount(st, from, to) ==
    Cardinality({i \in DOMAIN st.edges : st.edges[i].from = from /\ st.edges[i].to = to})

\* C9: connecting a node to the root twice leaves the edges that connecting
\* it once leaves, and a connect command never adds an edge between a pair
\* that an edge already joins.
C9_ConnectIsIdempotent ==
    /\ [](\A id \in NodeIds(state) :
             LET once == connectToRoot(state, id, clock, nextUid)
                 twice == connectToRoot(once, id, clock, nextUid + 1)
             IN  /\ twice.edges = once.edges
                 /\ PairCount(once, RootId(state), id) = IF Len(state.nodes) = 0 THEN 0
                        ELSE IF PairCount(state, RootId(state), id) = 0 THEN 1
                        ELSE PairCount(state, RootId(state), id))
    /\ [][\A id \in NodeIds(state) :
             ConnectToRoot(id)
                => \A from, to \in NodeIds(state) :
                      PairCount(state', from, to) =
                         IF from = RootId(state) /\ to = id /\ PairCount(state, from, to) = 0
                         THEN 1 ELSE PairCount(state, from, to)]_vars

\* C9 witness: the second of two connect commands on the same node found the
\* edge of the first and added none.
C9_Witness ==
    /\ lastOp = "connectToRoot/exists"
    /\ cmds = 2
    /\ Len(state.edges) = 1
    /\ PairCount(state, RootId(state), 2) = 1

\* C10: no two nodes of the state share an id.
C10_NodeIdsAreUnique ==
    \A i, j \in DOMAIN state.nodes : state.nodes[i].id = state.nodes[j].id => i = j

\* zoom lies within [0.65, 1.8]
InZoomRange(zoom) == ZoomMin <= zoom /\ zoom <= ZoomMax

\* zooms at the limits, next to them and between them
ZoomSamples == {ZoomMin, ZoomMin + 1, ZoomOne, ZoomMax - 1, ZoomMax}

ZoomKeys == {"0", "+", "-"}

\* a wheel event or a zoom key
ZoomStep == (\E in \in WheelInputs : Wheel(in)) \/ (\E key \in ZoomKeys : ZoomKey(key))

\* C11: a wheel event or a zoom key applied to a viewport whose zoom lies
\* within [0.65, 1.8] leaves a zoom within [0.65, 1.8].
C11_ZoomStaysInRange ==
    /\ [](\A zoom \in ZoomSamples :
             LET vp == [state.viewport EXCEPT !.zoom = zoom]
             IN  /\ \A in \in WheelInputs :
                       InZoomRange(wheelViewport(vp, in.deltaY, in.pt[1], in.pt[2]).zoom)
                 /\ \A key \in ZoomKeys : InZoomRange(keyZoom(vp, key).zoom))
    /\ [][(ZoomStep /\ InZoomRange(state.viewport.zoom))
             => InZoomRange(state'.viewport.zoom)]_vars

\* C11 witness: a wheel event on the graph of the earlier session, zoomed to
\* 1.75, stopped at 1.8.
C11_Witness ==
    /\ lastOp = "wheel"
    /\ pasted = NoText
    /\ Len(state.nodes) = 2
    /\ state.viewport.zoom = ZoomMax

\* an addNode command with argument parentId
AddStep(parentId) == \E in \in AddInputs : AddNode(parentId, in)

\* st followed by one more element
Extends(longer, shorter) ==
    /\ Len(longer) = Len(shorter) + 1
    /\ SubSeq(longer, 1, Len(shorter)) = shorter

\* C12: addNode appends one node with an id no node has and selects it; with
\* a parentId it appends one edge parentId -> new node, without one it leaves
\* the edges alone.  From the default graph two addNode() give 3 nodes and
\* no edge, two addNode(rootId) give 2 edges from the root to 2 nodes.
C12_AddNode ==
    /\ [][\A parentId \in NodeIds(state) \cup {Undefined} :
             AddStep(parentId)
                => LET n == state'.nodes[Len(state'.nodes)]
                   IN  /\ Extends(state'.nodes, state.nodes)
                       /\ n.id \notin NodeIds(state)
                       /\ state'.selectedId = n.id
                       /\ IF parentId = Undefined
                          THEN state'.edges = state.edges
                          ELSE /\ Extends(state'.edges, state.edges)
                               /\ state'.edges[Len(state'.edges)].from = parentId
                               /\ state'.edges[Len(state'.edges)].to = n.id]_vars
    /\ [](LET d == defaultState("", clock, nextUid + 1)
              root == d.nodes[1].id
              a1 == addNodeTo(d, Undefined, "", <<-20, -60>>, clock, nextUid + 1)
              a2 == addNodeTo(a1, Undefined, "", <<19, 59>>, clock, nextUid + 2)
              b1 == addNodeTo(d, root, "", <<-20, -60>>, clock, nextUid + 1)
              b2 == addNodeTo(b1, root, "", <<19, 59>>, clock, nextUid + 3)
          IN  /\ Len(a2.nodes) = 3 /\ a2.edges = <<>> /\ a2.selectedId = a2.nodes[3].id
              /\ Len(b1.edges) = 1 /\ b1.edges[1].from = root /\ b1.edges[1].to = b1.nodes[2].id
              /\ Len(b2.nodes) = 3 /\ Len(b2.edges) = 2
              /\ \A i \in 1..2 : b2.edges[i].from = root /\ b2.edges[i].to = b2.nodes[i + 1].id
              /\ b2.nodes[2].id # b2.nodes[3].id)

\* C12 witness: two addNode(rootId) on the default graph left three nodes and
\* two edges from the root, the last node selected.
C12_Witness ==
    /\ lastOp = "addNode"
    /\ cmds = 2
    /\ pasted = NoText
    /\ Len(state.nodes) = 3
    /\ Len(state.edges) = 2
    /\ \A i \in 1..2 : state.edges[i].from = RootId(state) /\ state.edges[i].to = state.nodes[i + 1].id
    /\ state.selectedId = state.nodes[3].id

\* C13: applyTemplate on a graph with a root keeps every node (its id and
\* place, and its title unless it is the anchor) and every edge, and appends
\* six nodes with new ids and six edges, the i-th from the root to the i-th
\* new node; a graph of a root alone becomes 7 nodes and 6 edges.
C13_TemplateIsAdditive ==
    [][(ApplyTemplate /\ Len(state.nodes) >= 1)
          => LET k == Len(state.nodes)
                 m == Len(state.edges)
             IN  /\ Len(state'.nodes) = k + 6
                 /\ \A i \in 1..k :
                       /\ [state'.nodes[i] EXCEPT !.title = state.nodes[i].title] = state.nodes[i]
                       /\ state.nodes[i].id # RootId(state) => state'.nodes[i] = state.nodes[i]
                 /\ Len(state'.edges) = m + 6
                 /\ SubSeq(state'.edges, 1, m) = state.edges
                 /\ \A i \in 1..6 :
                       /\ state'.edges[m + i].from = RootId(state)
                       /\ state'.edges[m + i].to = state'.nodes[k + i].id
                       /\ state'.nodes[k + i].id \notin NodeIds(state)
                       /\ \A j \in 1..6 : state'.nodes[k + i].id = state'.nodes[k + j].id => i = j]_vars

\* C13 witness: the template was applied to a root with one child; the child
\* and its edge are still there, followed by the six blocks.
C13_Witness ==
    /\ lastOp = "applyTemplate"
    /\ cmds = 2
    /\ Len(state.nodes) = 8
    /\ Len(state.edges) = 7
    /\ \A i \in 1..7 : state.edges[i].from = RootId(state) /\ state.edges[i].to = state.nodes[i + 1].id
    /\ state.nodes[3].title = "These"

\* the graph is a root and two nodes, each the target of an edge from the root
RootWithTwoChildren(st) ==
    /\ Len(st.nodes) = 3
    /\ \A i \in 2..3 : edgeExists(st, st.nodes[1].id, st.nodes[i].id)

\* C14: arranging an arranged graph again leaves every node where the first
\* arrangement put it; of a root with two children the children land on the
\* inner ring, at the top and at the bottom, on every invocation.
C14_AutoArrangeIsStable ==
    LET once == autoArrange(state, clock)
        twice == autoArrange(once, clock)
        thrice == autoArrange(twice, clock)
    IN  /\ twice.nodes = once.nodes
        /\ thrice.nodes = once.nodes
        /\ RootWithTwoChildren(state)
              => \A st \in {once, twice} : \A i \in 2..3 :
                    /\ st.nodes[i].x = PolarX(state.nodes[1].x, ((i - 2) * TwoPiMilli) \div 2 - HalfPiMilli, Radius1)
                    /\ st.nodes[i].y = PolarY(state.nodes[1].y, ((i - 2) * TwoPiMilli) \div 2 - HalfPiMilli, Radius1)

\* C14 witness: the graph was arranged while a node off the root came before
\* a child of the root; the child now comes first, and arranging again moves
\* nothing.
C14_Witness ==
    /\ lastOp = "autoArrange"
    /\ Len(state.nodes) = 3
    /\ Len(state.edges) = 1
    /\ state.edges[1].from = RootId(state)
    /\ state.edges[1].to = state.nodes[2].id
    /\ state.nodes[2].id > state.nodes[3].id
    /\ autoArrange(state, clock).nodes = state.nodes

\* the titles the editor itself gives a root: that of defaultState() and
\* those made of a seed
DefaultTitles == {"Nouvelle note"} \cup {NotesOf(sym) : sym \in Seeds}

\* router.query.symbol changes
SeedStep == \E sym \in Seeds \cup {""} : SeedChange(sym)

\* C15: a change of the seed leaves the state as it is when the title of the
\* root is not a default title any more (the user has edited it).
C15_SeedKeepsAnEditedRoot ==
    [][(SeedStep /\ Len(state.nodes) >= 1 /\ state.nodes[1].title \notin DefaultTitles)
          => state' = state]_vars

\* C16: the state expires 24 hours after its creation, in every state the
\* editor reaches (default creation, reset, sweep, import, seed rename, edits).
C16_WindowIsTwentyFourHours ==
    state.expiresAt = state.createdAt + TTL_MS

\* C16 witness: an export made 36 hours ago was imported; the state keeps the
\* creation time of the document and expires 24 hours after it.
C16_Witness ==
    /\ lastOp = "doImport"
    /\ pasted = OldDoc(clock)
    /\ state.createdAt = clock - 3 * TickMs
    /\ state.updatedAt = clock
    /\ state.expiresAt = state.createdAt + TTL_MS

\* C17: the graph always has at least one node.
C17_GraphIsNeverEmpty ==
    Len(state.nodes) >= 1

\* C18: selectedId is absent or the id of a node of the graph.
C18_SelectedIsLive ==
    state.selectedId = Undefined \/ state.selectedId \in NodeIds(state)

\* C19: the zoom of the state lies within [0.65, 1.8].
C19_ZoomIsClamped ==
    InZoomRange(state.viewport.zoom)

\* every edge has both ends among the nodes
EdgesAreLive(st) ==
    \A i \in DOMAIN st.edges : st.edges[i].from \in NodeIds(st) /\ st.edges[i].to \in NodeIds(st)

\* C20: a remove-selected command on a graph of more than one node removes
\* the selected node and the edges that touch it and keeps the other nodes
\* and edges in their order; and while nothing was imported every edge has
\* both ends among the nodes.
C20_DeleteRemovesTouchingEdges ==
    /\ [][(RemoveSelected /\ state.selectedId # Undefined /\ Len(state.nodes) > 1)
             => LET id == state.selectedId
                    Other(n) == n.id # id
                    Apart(e) == e.from # id /\ e.to # id
                IN  /\ state'.nodes = SelectSeq(state.nodes, Other)
                    /\ state'.edges = SelectSeq(state.edges, Apart)
                    /\ id \notin NodeIds(state')
                    /\ \A i \in DOMAIN state'.edges :
                          state'.edges[i].from # id /\ state'.edges[i].to # id]_vars
    /\ [](pasted = NoText => EdgesAreLive(state))

\* C20 witness: a child of the root of the default graph was added (two ids
\* drawn: the node's and the edge's) and then removed, and its edge went
\* with it.
C20_Witness ==
    /\ lastOp = "removeSelected"
    /\ cmds = 2
    /\ pasted = NoText
    /\ nextUid = PriorUids + 4
    /\ Len(state.nodes) = 1
    /\ state.edges = <<>>
    /\ state.selectedId = RootId(state)

\* C21: after a remove-selected command that removed a node, the selection
\* is the id of the new first node when the removed node was the root, and
\* the id of the root otherwise.
C21_SelectionAfterDelete ==
    [][(RemoveSelected /\ state.selectedId # Undefined /\ Len(state.nodes) > 1)
          => IF state.selectedId = RootId(state)
             THEN /\ state'.selectedId = RootId(state')
                  /\ Len(state'.nodes) >= 1 => state'.selectedId = state'.nodes[1].id
             ELSE /\ state'.selectedId = RootId(state)
                  /\ state'.selectedId = RootId(state')]_vars

\* C21 witness: the root of the stored graph was selected and removed; the
\* second node is the first one now and carries the selection.
C21_Witness ==
    /\ lastOp = "removeSelected"
    /\ pasted = NoText
    /\ Len(state.nodes) = 1
    /\ state.nodes[1].title = "Idea"
    /\ state.selectedId = state.nodes[1].id
    /\ state.selectedId # 1

\* `id` is given and is the id of no node of `st`
DeadId(st, id) == id # Undefined /\ id \notin NodeIds(st)

\* C22: a command working on an id that is the id of no node (updateSelected
\* or the centre key on a dangling selectedId, a drag move on a dragId whose
\* node is gone, connectToRoot on such an id) leaves the state (nodes, edges,
\* selectedId, viewport, updatedAt) as it was and the component mounted.
C22_DeadIdIsANoOp ==
    [][(\/ (\E typed \in TypedTitles : UpdateSelected(typed)) /\ DeadId(state, state.selectedId)
        \/ Center /\ DeadId(state, state.selectedId)
        \/ (\E id \in {state.selectedId} : ConnectToRoot(id)) /\ DeadId(state, state.selectedId)
        \/ (\E pt \in Points : CanvasMouseMove(pt)) /\ DeadId(state, dragId) /\ dragRef # Null)
          => state' = state /\ mounted']_vars

\* C23: panning and dragging are never active together, whatever the order
\* of mouse-down (on the canvas or on a node), move, up and leave; mouse-up
\* or leave ends both, and a move with neither active changes no state.
C23_PanAndDragExclude ==
    /\ [](~(isPanning /\ dragId # Undefined))
    /\ [][CanvasMouseUp => (~isPanning' /\ panRef' = Null /\ dragId' = Undefined /\ dragRef' = Null)]_vars
    /\ [][((\E pt \in Points : CanvasMouseMove(pt)) /\ ~isPanning /\ dragId = Undefined)
             => state' = state]_vars

\* the screen coordinate of world coordinate w under translation v and zoom
\* (lines 876-877)
screenOf(w, v, zoom) == MulMilli(w, zoom) + v

\* C24: the centre command on a live node leaves a viewport under which the
\* node is drawn at the point (520, 320) of the canvas, whatever the zoom.
C24_CenterPutsNodeAtCenter ==
    [][(Center /\ lastOp' = "center")
          => LET n == getNode(state', state'.selectedId)
             IN  /\ InZoomRange(state.viewport.zoom)
                    => /\ screenOf(n.x, state'.viewport.x, state'.viewport.zoom) = CenterX
                       /\ screenOf(n.y, state'.viewport.y, state'.viewport.zoom) = CenterY]_vars

\* the distance of two coordinates
Dist(a, b) == IF a >= b THEN a - b ELSE b - a

\* C25: after a wheel step the world point that was under the cursor is
\* drawn at the cursor under the new viewport, and the world point under the
\* cursor is the same one (to the pixel the integer arithmetic rounds to),
\* also when the new zoom is a clamped one.
C25_ZoomKeepsCursorPoint ==
    [][\A in \in WheelInputs :
          Wheel(in)
             => LET mx == in.pt[1]
                    my == in.pt[2]
                    before == state.viewport
                    after == state'.viewport
                    wx == worldOf(mx, before.x, before.zoom)
                    wy == worldOf(my, before.y, before.zoom)
                IN  /\ screenOf(wx, after.x, after.zoom) = mx
                    /\ screenOf(wy, after.y, after.zoom) = my
                    /\ Dist(worldOf(mx, after.x, after.zoom), wx) <= 1
                    /\ Dist(worldOf(my, after.y, after.zoom), wy) <= 1]_vars

\* C25 witness: a wheel step at cursor (300, 200) took the stored viewport
\* from zoom 1.75 to the clamp 1.8 and moved the translation off (0, 0); the
\* world point (171, 114) is still under the cursor.
C25_Witness ==
    /\ lastOp = "wheel"
    /\ cmds = 1
    /\ state.viewport.zoom = ZoomMax
    /\ state.viewport.x < 0
    /\ state.viewport.y < 0
    /\ worldOf(300, state.viewport.x, state.viewport.zoom) = worldOf(300, 0, StoredViewport.zoom)
    /\ worldOf(200, state.viewport.y, state.viewport.zoom) = worldOf(200, 0, StoredViewport.zoom)

\* how many nodes of `nodes` have id `id` and title `title`
CountOf(nodes, id, title) ==
    Cardinality({i \in DOMAIN nodes : nodes[i].id = id /\ nodes[i].title = title})

\* C26: autoArrange leaves the first node as it is, keeps the nodes (as many
\* of every id and title as before), the edges, selectedId, the viewport,
\* createdAt and expiresAt; an arrange command changes nothing else either.
C26_AutoArrangeFrame ==
    /\ [](LET after == autoArrange(state, clock)
          IN  /\ Len(after.nodes) = Len(state.nodes)
              /\ Len(state.nodes) >= 1 => after.nodes[1] = state.nodes[1]
              /\ \A i \in DOMAIN state.nodes :
                    CountOf(after.nodes, state.nodes[i].id, state.nodes[i].title)
                       = CountOf(state.nodes, state.nodes[i].id, state.nodes[i].title)
              /\ \A k \in DOMAIN state \ {"nodes", "updatedAt"} : after[k] = state[k])
    /\ [][(DoAutoArrange /\ Len(state.nodes) >= 1)
             => /\ state' = autoArrange(state, clock)
                /\ state'.nodes[1] = state.nodes[1]
                /\ UNCHANGED <<frame, nextUid, pointer, pasted>>]_vars

\* C26 witness: a document whose first node is off the centre of the canvas
\* was imported and arranged: the first node is where the document put it,
\* the second one is on the inner ring around it (the edge of the document
\* leads to its id), and both keep their id and title.
C26_Witness ==
    /\ lastOp = "autoArrange"
    /\ pasted = DupDoc
    /\ state.nodes[1] = DupDoc.val.nodes[1]
    /\ state.nodes[1].x # CenterX
    /\ Len(state.nodes) = 2
    /\ state.nodes[2].id = 101
    /\ state.nodes[2].title = "B"
    /\ state.nodes[2].x = PolarX(0, 0 - HalfPiMilli, Radius1)
    /\ state.nodes[2].y = PolarY(0, 0 - HalfPiMilli, Radius1)
    /\ state.nodes[2] # DupDoc.val.nodes[2]
    /\ state.edges = DupDoc.val.edges
    /\ state.selectedId = 101

\* the ids of the nodes of `st` in the order of the node sequence
IdOrder(st) == [i \in DOMAIN st.nodes |-> st.nodes[i].id]

\* C27: an arrange command leaves the nodes in the order they had.
C27_AutoArrangeKeepsOrder ==
    [][DoAutoArrange => IdOrder(state') = IdOrder(state)]_vars

\* some edge of `st` joins node `n` and node `root`, in either direction
Linked(st, root, n) ==
    \E i \in DOMAIN st.edges :
       \/ st.edges[i].from = root.id /\ st.edges[i].to = n.id
       \/ st.edges[i].from = n.id /\ st.edges[i].to = root.id

\* the nodes of `arr` on the ring of `radius` around `root`: the i-th of k at
\* angle start + i * 2 pi / k, i counted from 0
OnRing(arr, root, radius, start) ==
    {[arr[i] EXCEPT !.x = PolarX(root.x, start + ((i - 1) * TwoPiMilli) \div Max(Len(arr), 1), radius),
                    !.y = PolarY(root.y, start + ((i - 1) * TwoPiMilli) \div Max(Len(arr), 1), radius)]
        : i \in DOMAIN arr}

\* C28: an arrange command puts the nodes that an edge joins to the root, in
\* either direction, on the ring of radius 210 and the other nodes on the
\* ring of radius 370, the i-th node of a ring of k at start + i * 2 pi / k.
C28_AutoArrangeRings ==
    [][(DoAutoArrange /\ Len(state.nodes) >= 1)
          => LET root == state.nodes[1]
                 others == Tail(state.nodes)
                 IsLinked(n) == Linked(state, root, n)
                 NotLinked(n) == ~Linked(state, root, n)
             IN  {state'.nodes[j] : j \in 2..Len(state'.nodes)}
                    = OnRing(SelectSeq(others, IsLinked), root, Radius1, 0 - HalfPiMilli)
                      \cup OnRing(SelectSeq(others, NotLinked), root, Radius2, Ring2Bias - HalfPiMilli)]_vars

\* the text in storage parses to a state that is not expired at time t
Usable(text, t) ==
    /\ ~Falsy(safeParseJSON(text))
    /\ ~isExpired(asState(safeParseJSON(text)), t)

Nearest8(r, v) == r % 8 = 0 /\ Dist(r, v) <= 4

\* the state after mouse-down at p0 on the i-th node of `st` (lines 596-607)
\* and a move to p1 (lines 529-551), both at time t
DragTo(st, i, p0, p1, t) ==
    LET node == st.nodes[i]
        ref == [dx |-> worldOf(p0[1], st.viewport.x, st.viewport.zoom) - node.x,
                dy |-> worldOf(p0[2], st.viewport.y, st.viewport.zoom) - node.y]
    IN  dragMove(selectNode(st, node.id, t), node.id, ref, p1, t)

\* in `after` the i-th node of `st` sits where it was plus the displacement
\* of the world point under the pointer from p0 to p1, on the grid of 8, and
\* no other node, no edge and no viewport field differs
Follows(st, after, i, p0, p1) ==
    LET node == st.nodes[i]
        wx(p) == worldOf(p[1], st.viewport.x, st.viewport.zoom)
        wy(p) == worldOf(p[2], st.viewport.y, st.viewport.zoom)
    IN  /\ Len(after.nodes) = Len(st.nodes)
        /\ Nearest8(after.nodes[i].x, node.x + (wx(p1) - wx(p0)))
        /\ Nearest8(after.nodes[i].y, node.y + (wy(p1) - wy(p0)))
        /\ after.nodes[i].id = node.id /\ after.nodes[i].title = node.title
        /\ \A j \in DOMAIN st.nodes \ {i} : after.nodes[j] = st.nodes[j]
        /\ after.edges = st.edges
        /\ after.viewport = st.viewport

\* C30: a drag follows the pointer.  From every state the editor reaches, a
\* mouse-down on a node at p0 and a move to p1 leave that node at its start
\* position plus the displacement of the world point under the pointer,
\* rounded to the nearest multiple of 8, and every other node, the edges and
\* the viewport as they were; and the first move step of a gesture does so
\* for the gesture the mouse-down step started.
C30_DragFollowsPointer ==
    /\ [](\A i \in DOMAIN state.nodes : \A p0 \in Points, p1 \in Points :
             Follows(state, DragTo(state, i, p0, p1, clock), i, p0, p1))
    /\ [][\A p1 \in Points :
             (CanvasMouseMove(p1) /\ lastOp = "startDragNode" /\ lastOp' = "mouseMove/drag")
                => \E i \in DOMAIN state.nodes : \E p0 \in Points :
                      /\ state.nodes[i].id = dragId
                      /\ dragRef = [dx |-> worldOf(p0[1], state.viewport.x, state.viewport.zoom) - state.nodes[i].x,
                                    dy |-> worldOf(p0[2], state.viewport.y, state.viewport.zoom) - state.nodes[i].y]
                      /\ Follows(state, state', i, p0, p1)]_vars

====
